---- MODULE Spec2Model ----
(***************************************************************************)
(* A model of the ulog crate: the ULog recorder trait, the StubLogger,     *)
(* ChainLogger and MinLevelLogger recorders of src/common.rs, the blanket  *)
(* impl for &Logger and the ulog! macro of src/lib.rs, and the capturing   *)
(* TestLogger the crate's tests use as a leaf recorder.                    *)
(*                                                                         *)
(* A recorder value is a record tagged by "kind".  A call on a recorder    *)
(* is resolved, as the generic code resolves it, into the sequence of      *)
(* calls on leaf recorders it makes, in the order it makes them; a caller  *)
(* (thread) then performs these leaf calls one at a time.                  *)
(***************************************************************************)
EXTENDS Integers, Sequences, FiniteSets, TLC

\* ------------------------------------------------------------------ bounds

\* Number of trait-method calls a caller makes directly on the recorder.
MaxCalls == 2

\* Number of ulog! statements issued in a run.
MaxStmts == 2

\* ---------------------------------------------------------------- ULogLevel

ULogLevel == {"Debug", "Info", "Warning", "Error", "Critical"}

\* Mutant: Warning declared before Info.
DiscriminantWarningFirst(level) ==
    CASE level = "Debug" -> 0
      [] level = "Warning" -> 1
      [] level = "Info" -> 2
      [] level = "Error" -> 3
      [] level = "Critical" -> 4

\* The discriminant the derived PartialOrd / Ord compare by: declaration order.
Discriminant(level) ==
    CASE level = "Debug" -> 0
      [] level = "Info" -> 1
      [] level = "Warning" -> 2
      [] level = "Error" -> 3
      [] level = "Critical" -> 4

\* derive(Ord): Ord::cmp
ULogLevel_cmp(a, b) ==
    IF Discriminant(a) < Discriminant(b) THEN "Less"
    ELSE IF Discriminant(a) = Discriminant(b) THEN "Equal"
    ELSE "Greater"

\* derive(PartialEq): a == b
ULogLevel_eq(a, b) == Discriminant(a) = Discriminant(b)

\* derive(PartialOrd): a < b
ULogLevel_lt(a, b) == ULogLevel_cmp(a, b) = "Less"

\* derive(PartialOrd): a > b
ULogLevel_gt(a, b) == ULogLevel_cmp(a, b) = "Greater"

\* derive(PartialOrd): a >= b
ULogLevel_ge(a, b) == ULogLevel_cmp(a, b) \in {"Greater", "Equal"}

\* impl From<&ULogLevel> for &'static str
From_ref_ULogLevel(value) ==
    CASE value = "Debug" -> "DEBUG"
      [] value = "Info" -> "INFO"
      [] value = "Warning" -> "WARN"
      [] value = "Error" -> "ERROR"
      [] value = "Critical" -> "CRITICAL"

\* impl From<ULogLevel> for &'static str: converts a reference to the value
From_ULogLevel(value) == From_ref_ULogLevel(value)

\* ULogLevel::as_str: self.into()
as_str(self) == From_ref_ULogLevel(self)

\* impl Display: write!(f, "{}", self.as_str()), what is written to f
Display_fmt(self) == "" \o as_str(self)

\* Mutant: Warning is given the short code of Error.
as_short_strWarningAsError(self) ==
    CASE self = "Debug" -> "DBG"
      [] self = "Info" -> "INF"
      [] self = "Warning" -> "ERR"
      [] self = "Error" -> "ERR"
      [] self = "Critical" -> "CRT"

\* ULogLevel::as_short_str
as_short_str(self) ==
    CASE self = "Debug" -> "DBG"
      [] self = "Info" -> "INF"
      [] self = "Warning" -> "WRN"
      [] self = "Error" -> "ERR"
      [] self = "Critical" -> "CRT"

all_levels == <<"Debug", "Info", "Warning", "Error", "Critical">>

\* ----------------------------------------------------------------- ULogData

ULogData_new(level, line, file) == [level |-> level, line |-> line, file |-> file]

\* The metadata values callers pass: every level, and two call sites.
LogDatas ==
    {ULogData_new(l, 255, "src/lib.rs") : l \in ULogLevel}
        \cup {ULogData_new("Warning", 298, "src/main.rs")}

Strings == {"Hello", "world"}
Keys == {"value"}
Values == {32}

\* The ulog! call sites of the program: where each is, its string literal and
\* the names of its name => value pairs, in textual order.
CallSites ==
    {[line |-> 255, file |-> "src/lib.rs", str |-> "Hello", names |-> <<>>],
     [line |-> 256, file |-> "src/lib.rs", str |-> "world", names |-> <<"value">>],
     [line |-> 298, file |-> "src/main.rs", str |-> "Hello",
      names |-> <<"value", "other">>]}

\* ------------------------------------------------------------ calls of ULog

\* One call of a trait method, with its arguments (the receiver aside).
\* string, key and value are "" / "" / 0 where the method has no such argument.
Call_log_begin(log_data) ==
    [op |-> "log_begin", log_data |-> log_data, string |-> "", key |-> "", value |-> 0]

Call_log_str(log_data, string) ==
    [op |-> "log_str", log_data |-> log_data, string |-> string, key |-> "", value |-> 0]

Call_log_format(log_data, key, value) ==
    [op |-> "log_format", log_data |-> log_data, string |-> "", key |-> key, value |-> value]

Call_log_end(log_data) ==
    [op |-> "log_end", log_data |-> log_data, string |-> "", key |-> "", value |-> 0]

\* ---------------------------------------------------------------- recorders

LeafIds == {"a", "b", "c"}

Threads == {1, 2}

\* The tests' capturing recorder; id names the instance (its logs field is logs[id]).
TestLogger(id) == [kind |-> "Test", id |-> id]

StubLogger == [kind |-> "Stub"]

\* A recorder from outside the crate whose every method panics.
PanicLogger == [kind |-> "Panic"]

\* &Logger
Ref(logger) == [kind |-> "Ref", referent |-> logger]

ChainLogger_new(parent, current) ==
    [kind |-> "Chain", parent |-> parent, current |-> current]

\* Mutant: the pair is returned in the other order.
ChainLogger_into_innerSwapped(self) == <<self.current, self.parent>>

ChainLogger_into_inner(self) == <<self.parent, self.current>>

MinLevelLogger_new(logger, min_level) ==
    [kind |-> "MinLevel", logger |-> logger, min_level |-> min_level]

MinLevelLogger_min_level(self) == self.min_level

MinLevelLogger_into_inner(self) == self.logger

\* A call that reaches a leaf recorder.
LeafCall(leaf, call) == <<[leaf |-> leaf, call |-> call]>>

\* logger.<call.op>(call's arguments), resolved by the recorder's type: the
\* leaf calls it makes, in order.
RECURSIVE Invoke(_, _)

\* Mutant: log_str is not passed to current.
ChainLogger_log_strParentOnly(self, call) == Invoke(self.parent, call)

ChainLogger_log_str(self, call) ==
    Invoke(self.parent, call) \o Invoke(self.current, call)

\* Mutant: log_format reaches current before parent.
ChainLogger_log_formatCurrentFirst(self, call) ==
    Invoke(self.current, call) \o Invoke(self.parent, call)

ChainLogger_log_format(self, call) ==
    Invoke(self.parent, call) \o Invoke(self.current, call)

\* Mutant: current is called before parent.
ChainLogger_log_beginCurrentFirst(self, call) ==
    Invoke(self.current, call) \o Invoke(self.parent, call)

ChainLogger_log_begin(self, call) ==
    Invoke(self.parent, call) \o Invoke(self.current, call)

\* Mutant: log_end reaches current before parent.
ChainLogger_log_endCurrentFirst(self, call) ==
    Invoke(self.current, call) \o Invoke(self.parent, call)

ChainLogger_log_end(self, call) ==
    Invoke(self.parent, call) \o Invoke(self.current, call)

\* Mutants below are the code with one plausible slip; the properties at the
\* end of the module are checked to tell each from the code.

\* Mutant: forwards only levels strictly above min_level.
MinLevelLogger_log_strAbove(self, call) ==
    IF ULogLevel_gt(call.log_data.level, self.min_level)
    THEN Invoke(self.logger, call)
    ELSE <<>>

MinLevelLogger_log_str(self, call) ==
    IF ULogLevel_ge(call.log_data.level, self.min_level)
    THEN Invoke(self.logger, call)
    ELSE <<>>

\* Mutant: log_format forwards without looking at the level.
MinLevelLogger_log_formatUnchecked(self, call) == Invoke(self.logger, call)

MinLevelLogger_log_format(self, call) ==
    IF ULogLevel_ge(call.log_data.level, self.min_level)
    THEN Invoke(self.logger, call)
    ELSE <<>>

\* Mutant: log_begin forwards without looking at the level.
MinLevelLogger_log_beginUnchecked(self, call) == Invoke(self.logger, call)

MinLevelLogger_log_begin(self, call) ==
    IF ULogLevel_ge(call.log_data.level, self.min_level)
    THEN Invoke(self.logger, call)
    ELSE <<>>

\* Mutant: log_end forwards without looking at the level.
MinLevelLogger_log_endUnchecked(self, call) == Invoke(self.logger, call)

MinLevelLogger_log_end(self, call) ==
    IF ULogLevel_ge(call.log_data.level, self.min_level)
    THEN Invoke(self.logger, call)
    ELSE <<>>

\* impl ULog for &Logger
Ref_log_str(self, call) == Invoke(self.referent, call)

\* Mutant: the referent is called twice.
Ref_log_formatTwice(self, call) ==
    Invoke(self.referent, call) \o Invoke(self.referent, call)

Ref_log_format(self, call) == Invoke(self.referent, call)

Ref_log_begin(self, call) == Invoke(self.referent, call)

Ref_log_end(self, call) == Invoke(self.referent, call)

\* The method of the impl that call.op names.
ChainLogger_log(self, call) ==
    CASE call.op = "log_str" -> ChainLogger_log_str(self, call)
      [] call.op = "log_format" -> ChainLogger_log_format(self, call)
      [] call.op = "log_begin" -> ChainLogger_log_begin(self, call)
      [] call.op = "log_end" -> ChainLogger_log_end(self, call)

MinLevelLogger_log(self, call) ==
    CASE call.op = "log_str" -> MinLevelLogger_log_str(self, call)
      [] call.op = "log_format" -> MinLevelLogger_log_format(self, call)
      [] call.op = "log_begin" -> MinLevelLogger_log_begin(self, call)
      [] call.op = "log_end" -> MinLevelLogger_log_end(self, call)

Ref_log(self, call) ==
    CASE call.op = "log_str" -> Ref_log_str(self, call)
      [] call.op = "log_format" -> Ref_log_format(self, call)
      [] call.op = "log_begin" -> Ref_log_begin(self, call)
      [] call.op = "log_end" -> Ref_log_end(self, call)

Invoke(logger, call) ==
    CASE logger.kind = "Chain" -> ChainLogger_log(logger, call)
      [] logger.kind = "MinLevel" -> MinLevelLogger_log(logger, call)
      [] logger.kind = "Ref" -> Ref_log(logger, call)
      [] OTHER -> LeafCall(logger, call)

\* ---------------------------------------------------------- leaf recorders

\* StubLogger: each method is a no-op on everything there is to observe.
StubLogger_log_str(state, call) == state

StubLogger_log_format(state, call) == state

\* Mutant: log_begin leaves a trace in a recorder.
StubLogger_log_beginTrace(state, call) ==
    [state EXCEPT !["a"] = Append(@, <<call.log_data.level, "__BEGIN__">>)]

StubLogger_log_begin(state, call) == state

StubLogger_log_end(state, call) == state

\* TestLogger: each method pushes (level, String) on self.logs.
TestLogger_log_str(self_logs, call) ==
    Append(self_logs, <<call.log_data.level, call.string>>)

TestLogger_log_format(self_logs, call) ==
    Append(self_logs,
           <<call.log_data.level, call.key \o " => " \o ToString(call.value)>>)

TestLogger_log_begin(self_logs, call) ==
    Append(self_logs, <<call.log_data.level, "__BEGIN__">>)

TestLogger_log_end(self_logs, call) ==
    Append(self_logs, <<call.log_data.level, "__END__">>)

TestLogger_log(self_logs, call) ==
    CASE call.op = "log_str" -> TestLogger_log_str(self_logs, call)
      [] call.op = "log_format" -> TestLogger_log_format(self_logs, call)
      [] call.op = "log_begin" -> TestLogger_log_begin(self_logs, call)
      [] call.op = "log_end" -> TestLogger_log_end(self_logs, call)

StubLogger_log(state, call) ==
    CASE call.op = "log_str" -> StubLogger_log_str(state, call)
      [] call.op = "log_format" -> StubLogger_log_format(state, call)
      [] call.op = "log_begin" -> StubLogger_log_begin(state, call)
      [] call.op = "log_end" -> StubLogger_log_end(state, call)

\* -------------------------------------------------------------------- state

VARIABLES
    root,       \* the recorder the callers log to
    args,       \* the arguments root was constructed from (<<>> for a leaf)
    unwrapped,  \* what into_inner returned, <<>> while root is not consumed
    logs,       \* logs[id]: the logs field of TestLogger id
    pending,    \* pending[t]: the leaf calls left of the call thread t is in
    prog,       \* prog[t]: the calls left of the ulog! statement thread t is in
    cur,        \* cur[t]: the number of that statement (0: a direct call)
    status,     \* status[t]: "ok", or "panicked" once a call of t has panicked
    program,    \* the ulog! statements of the program: a level and a call site each
    statements, \* history: statements[t]: the ulog! statements t has begun
    issued,     \* history: issued[t]: the calls t has made on root, in order
    observed,   \* history: the calls the leaf recorders received, in order
    returned,   \* history: the number of calls on root that have returned
    given,      \* the arguments of the level functions under evaluation
    result      \* the function of ULogLevel last evaluated on given, and its value

vars ==
    <<root, args, unwrapped, logs, pending, prog, cur, status, program,
      statements, issued, observed, returned, given, result>>

\* The state of the recorders and of their callers.
logging ==
    <<root, args, unwrapped, logs, pending, prog, cur, status, program,
      statements, issued, observed, returned>>

\* let logger = ...: a recorder together with the arguments of its constructor.
Leaf(logger) == [root |-> logger, args |-> <<>>]

Chain(parent, current) ==
    [root |-> ChainLogger_new(parent, current), args |-> <<parent, current>>]

MinLevel(logger, min_level) ==
    [root |-> MinLevelLogger_new(logger, min_level), args |-> <<logger, min_level>>]

Borrow(logger) == [root |-> Ref(logger), args |-> <<logger>>]

Builds ==
    {Leaf(TestLogger("a")), Leaf(StubLogger),
     Borrow(TestLogger("a")), Borrow(Ref(TestLogger("a")))}
        \cup {Chain(p, c) : p \in {TestLogger("a"), StubLogger},
                            c \in {TestLogger("b"), StubLogger}}
        \cup {MinLevel(TestLogger("a"), t) : t \in ULogLevel}
        \cup {MinLevel(ChainLogger_new(TestLogger("a"), TestLogger("b")), "Warning")}

\* ulog!(level, logger, ...) with each level, at each call site.
Program == [level : ULogLevel, site : CallSites]

InitWith(builds, statement_set) ==
    /\ \E b \in builds : root = b.root /\ args = b.args
    /\ program = statement_set
    /\ unwrapped = <<>>
    /\ logs = [id \in LeafIds |-> <<>>]
    /\ pending = [t \in Threads |-> <<>>]
    /\ prog = [t \in Threads |-> <<>>]
    /\ cur = [t \in Threads |-> 0]
    /\ status = [t \in Threads |-> "ok"]
    /\ statements = [t \in Threads |-> <<>>]
    /\ issued = [t \in Threads |-> <<>>]
    /\ observed = <<>>
    /\ returned = 0
    /\ given = <<>>
    /\ result = [fn |-> "none"]

Init == InitWith(Builds, Program)

\* Mutant: a statement holds a lock from its log_begin to its log_end, so a
\* thread is held up while another is inside a statement.
IdleExclusive(t) ==
    /\ status[t] = "ok"
    /\ pending[t] = <<>>
    /\ unwrapped = <<>>
    /\ \A u \in Threads \ {t} : prog[u] = <<>> /\ pending[u] = <<>>

\* Thread t is between two calls, and root has not been moved out of.  Nothing
\* else is asked: no method takes a lock or waits.
Idle(t) ==
    /\ status[t] = "ok"
    /\ pending[t] = <<>>
    /\ unwrapped = <<>>

\* Thread t enters the method of root that call names (stmt: the number of
\* the statement the call is part of).
Enter(t, call, stmt) ==
    /\ issued' = [issued EXCEPT ![t] = Append(@, [call |-> call, stmt |-> stmt])]
    /\ pending' = [pending EXCEPT ![t] = Invoke(root, call)]
    /\ returned' = IF Invoke(root, call) = <<>> THEN returned + 1 ELSE returned
    /\ UNCHANGED <<root, args, unwrapped, logs, status, program, observed, given,
                   result>>

\* Thread t may call a trait method on root directly.
CanCall(t) ==
    /\ Idle(t)
    /\ prog[t] = <<>>
    /\ Len(issued[t]) < MaxCalls

Direct(t, call) ==
    /\ cur' = [cur EXCEPT ![t] = 0]
    /\ Enter(t, call, 0)
    /\ UNCHANGED <<prog, statements>>

\* A caller calls a trait method on root directly.
log_begin(t) ==
    /\ CanCall(t)
    /\ \E d \in LogDatas : Direct(t, Call_log_begin(d))

log_str(t) ==
    /\ CanCall(t)
    /\ \E d \in LogDatas, s \in Strings : Direct(t, Call_log_str(d, s))

log_format(t) ==
    /\ CanCall(t)
    /\ \E d \in LogDatas, k \in Keys, v \in Values :
           Direct(t, Call_log_format(d, k, v))

log_end(t) ==
    /\ CanCall(t)
    /\ \E d \in LogDatas : Direct(t, Call_log_end(d))

\* Mutant: log_end is called before the name => value pairs are logged.
ulogEndEarly(level, site, values) ==
    LET log_data == ULogData_new(level, site.line, site.file)
    IN  <<Call_log_begin(log_data),
          Call_log_str(log_data, site.str),
          Call_log_end(log_data)>>
        \o [i \in 1..Len(site.names) |->
               Call_log_format(log_data, site.names[i], values[i])]

\* ulog!(level, root, site.str, site.names[i] => values[i], ...): the calls
\* the expansion makes, in order.
ulog(level, site, values) ==
    LET log_data == ULogData_new(level, site.line, site.file)
    IN  IF site.names = <<>>
        THEN <<Call_log_begin(log_data),
               Call_log_str(log_data, site.str),
               Call_log_end(log_data)>>
        ELSE <<Call_log_begin(log_data),
               Call_log_str(log_data, site.str)>>
             \o [i \in 1..Len(site.names) |->
                    Call_log_format(log_data, site.names[i], values[i])]
             \o <<Call_log_end(log_data)>>

\* The number of statements begun, by all threads.
StmtCount == Len(statements[1]) + Len(statements[2])

\* Thread t reaches a ulog! statement.
ulog_enter(t) ==
    /\ Idle(t)
    /\ prog[t] = <<>>
    /\ StmtCount < MaxStmts
    /\ \E st \in program :
         \E values \in [1..Len(st.site.names) -> Values] :
            /\ prog' = [prog EXCEPT ![t] = ulog(st.level, st.site, values)]
            /\ statements' = [statements EXCEPT ![t] = Append(@,
                   [level |-> st.level, site |-> st.site, values |-> values])]
    /\ cur' = [cur EXCEPT ![t] = Len(statements[t]) + 1]
    /\ UNCHANGED <<root, args, unwrapped, logs, pending, status, program, issued,
                   observed, returned, given, result>>

\* Thread t makes the next call of the statement it is in.
ulog_call(t) ==
    /\ Idle(t)
    /\ prog[t] # <<>>
    /\ Enter(t, Head(prog[t]), cur[t])
    /\ prog' = [prog EXCEPT ![t] = Tail(@)]
    /\ UNCHANGED <<cur, statements>>

\* Mutant: warn! passes Error for the level.
warnAsError(site, values) == ulog("Error", site, values)

\* debug!, info!, warn!, error!, critical!: each expands to ulog! with its level.
debug(site, values) == ulog("Debug", site, values)

info(site, values) == ulog("Info", site, values)

warn(site, values) == ulog("Warning", site, values)

error(site, values) == ulog("Error", site, values)

critical(site, values) == ulog("Critical", site, values)

LevelMacros == {"debug", "info", "warn", "error", "critical"}

\* The expansion of the level macro of that name.
level_macro(name, site, values) ==
    CASE name = "debug" -> debug(site, values)
      [] name = "info" -> info(site, values)
      [] name = "warn" -> warn(site, values)
      [] name = "error" -> error(site, values)
      [] name = "critical" -> critical(site, values)

\* Thread t reaches a debug!, info!, warn!, error! or critical! statement.
level_macro_enter(t) ==
    /\ Idle(t)
    /\ prog[t] = <<>>
    /\ StmtCount < MaxStmts
    /\ \E st \in program :
         \E values \in [1..Len(st.site.names) -> Values] :
            /\ prog' = [prog EXCEPT ![t] = level_macro(st.macro, st.site, values)]
            /\ statements' = [statements EXCEPT ![t] = Append(@,
                   [macro |-> st.macro, site |-> st.site, values |-> values])]
    /\ cur' = [cur EXCEPT ![t] = Len(statements[t]) + 1]
    /\ UNCHANGED <<root, args, unwrapped, logs, pending, status, program, issued,
                   observed, returned, given, result>>

\* Thread t makes the next leaf call of the call it is in.  A panic unwinds:
\* the rest of the call, and of the statement, is not executed.
Deliver(t) ==
    /\ status[t] = "ok"
    /\ pending[t] # <<>>
    /\ LET leaf == Head(pending[t]).leaf
           call == Head(pending[t]).call
       IN  /\ observed' = Append(observed,
                  [leaf |-> leaf, call |-> call, by |-> t, stmt |-> cur[t]])
           /\ logs' = CASE leaf.kind = "Test" ->
                             [logs EXCEPT ![leaf.id] = TestLogger_log(@, call)]
                        [] leaf.kind = "Stub" -> StubLogger_log(logs, call)
                        [] OTHER -> logs
           /\ IF leaf.kind = "Panic"
              THEN /\ status' = [status EXCEPT ![t] = "panicked"]
                   /\ pending' = [pending EXCEPT ![t] = <<>>]
                   /\ prog' = [prog EXCEPT ![t] = <<>>]
                   /\ returned' = returned
              ELSE /\ status' = status
                   /\ pending' = [pending EXCEPT ![t] = Tail(@)]
                   /\ prog' = prog
                   /\ returned' = IF Len(pending[t]) = 1 THEN returned + 1 ELSE returned
    /\ UNCHANGED <<root, args, unwrapped, cur, program, statements, issued, given,
                   result>>

\* root.into_inner(), for a ChainLogger and for a MinLevelLogger.
ChainIntoInner(t) ==
    /\ Idle(t)
    /\ prog[t] = <<>>
    /\ root.kind = "Chain"
    /\ unwrapped' = <<ChainLogger_into_inner(root)>>
    /\ UNCHANGED <<root, args, logs, pending, prog, cur, status, program,
                   statements, issued, observed, returned, given, result>>

MinLevelIntoInner(t) ==
    /\ Idle(t)
    /\ prog[t] = <<>>
    /\ root.kind = "MinLevel"
    /\ unwrapped' = <<MinLevelLogger_into_inner(root)>>
    /\ UNCHANGED <<root, args, logs, pending, prog, cur, status, program,
                   statements, issued, observed, returned, given, result>>

\* One caller making direct calls on root.
Next ==
    \/ log_begin(1)
    \/ log_str(1)
    \/ log_format(1)
    \/ log_end(1)
    \/ Deliver(1)
    \/ ChainIntoInner(1)
    \/ MinLevelIntoInner(1)

Spec == Init /\ [][Next]_vars

\* One caller issuing ulog! statements one after another.
MacroBuilds ==
    {Leaf(TestLogger("a")), Borrow(TestLogger("a")),
     Chain(TestLogger("a"), TestLogger("b")),
     MinLevel(ChainLogger_new(TestLogger("a"), TestLogger("b")), "Warning")}
        \cup {MinLevel(TestLogger("a"), t) : t \in ULogLevel}

InitMacro == InitWith(MacroBuilds, Program)

NextMacro ==
    \/ ulog_enter(1)
    \/ ulog_call(1)
    \/ Deliver(1)

SpecMacro == InitMacro /\ [][NextMacro]_vars

\* One caller issuing debug!, info!, warn!, error! and critical! statements.
LevelMacroBuilds ==
    {Leaf(TestLogger("a")), Borrow(TestLogger("a")),
     MinLevel(TestLogger("a"), "Warning")}

\* Each level macro at each call site.
LevelMacroProgram == [macro : LevelMacros, site : CallSites]

InitLevelMacro == InitWith(LevelMacroBuilds, LevelMacroProgram)

NextLevelMacro ==
    \/ level_macro_enter(1)
    \/ ulog_call(1)
    \/ Deliver(1)

SpecLevelMacro == InitLevelMacro /\ [][NextLevelMacro]_vars

\* One caller making direct calls on recorders built over a leaf that panics.
FailBuilds ==
    {Leaf(PanicLogger),
     Chain(PanicLogger, TestLogger("b")),
     Chain(TestLogger("a"), PanicLogger),
     Chain(TestLogger("a"), TestLogger("b")),
     Chain(StubLogger, StubLogger),
     MinLevel(TestLogger("a"), "Warning"),
     MinLevel(ChainLogger_new(TestLogger("a"), PanicLogger), "Error")}
        \cup {MinLevel(PanicLogger, t) : t \in ULogLevel}

InitFail == InitWith(FailBuilds, Program)

NextFail ==
    \/ log_begin(1)
    \/ log_str(1)
    \/ log_format(1)
    \/ log_end(1)
    \/ Deliver(1)

SpecFail == InitFail /\ [][NextFail]_vars

\* Two threads sharing root (by reference) and issuing ulog! statements with
\* nothing ordering them.  A leaf handles one call at a time, as a leaf meant to
\* be shared must; TestLogger stands for such a leaf.
ConcBuilds ==
    {Leaf(TestLogger("a")),
     Chain(TestLogger("a"), TestLogger("b")),
     MinLevel(TestLogger("a"), "Warning")}

ConcProgram ==
    [level : {"Debug", "Error"},
     site : {[line |-> 255, file |-> "src/lib.rs", str |-> "Hello", names |-> <<>>]}]

InitConc == InitWith(ConcBuilds, ConcProgram)

NextConc ==
    \E t \in Threads :
        \/ ulog_enter(t)
        \/ ulog_call(t)
        \/ Deliver(t)

SpecConc == InitConc /\ [][NextConc]_vars

\* Two threads issuing ulog! statements on one shared ChainLogger.
SharedChainBuilds == {Chain(TestLogger("a"), TestLogger("b"))}

\* Both threads run ulog!(ULogLevel::Error, logger, "Hello").
SharedChainProgram ==
    {[level |-> "Error",
      site |-> [line |-> 255, file |-> "src/lib.rs", str |-> "Hello",
                names |-> <<>>]]}

InitSharedChain == InitWith(SharedChainBuilds, SharedChainProgram)

NextSharedChain ==
    \E t \in Threads :
        \/ ulog_enter(t)
        \/ ulog_call(t)
        \/ Deliver(t)

SpecSharedChain == InitSharedChain /\ [][NextSharedChain]_vars

\* Trees of decorators, built with chain and min_level over the leaves a, b, c.
NestedThresholds == {"Info", "Warning", "Error"}

TreeBuilds ==
    {MinLevel(MinLevelLogger_new(TestLogger("a"), t1), t2) :
         t1 \in NestedThresholds, t2 \in NestedThresholds}
      \cup
    {Chain(ChainLogger_new(TestLogger("a"), TestLogger("b")), TestLogger("c")),
     Chain(TestLogger("a"), ChainLogger_new(TestLogger("b"), TestLogger("c"))),
     Chain(MinLevelLogger_new(TestLogger("a"), "Warning"),
           MinLevelLogger_new(TestLogger("b"), "Error")),
     MinLevel(ChainLogger_new(MinLevelLogger_new(TestLogger("a"), "Error"),
                              TestLogger("b")), "Info"),
     Chain(MinLevelLogger_new(ChainLogger_new(TestLogger("a"), TestLogger("b")),
                              "Warning"),
           MinLevelLogger_new(TestLogger("c"), "Info"))}

\* ulog! with each level, without pairs and with one.
TreeProgram ==
    [level : ULogLevel, site : {s \in CallSites : Len(s.names) <= 1}]

InitTree == InitWith(TreeBuilds, TreeProgram)

NextTree ==
    \/ ulog_enter(1)
    \/ ulog_call(1)
    \/ Deliver(1)

SpecTree == InitTree /\ [][NextTree]_vars

\* The functions of ULogLevel, evaluated on levels x, y, z and on indices
\* i < j of all_levels().
LevelInputs ==
    {in \in [x : ULogLevel, y : ULogLevel, z : ULogLevel, i : 1..5, j : 1..5] :
        in.i < in.j}

InitLevels ==
    /\ root = StubLogger
    /\ args = <<>>
    /\ unwrapped = <<>>
    /\ logs = [id \in LeafIds |-> <<>>]
    /\ pending = [t \in Threads |-> <<>>]
    /\ prog = [t \in Threads |-> <<>>]
    /\ cur = [t \in Threads |-> 0]
    /\ status = [t \in Threads |-> "ok"]
    /\ program = {}
    /\ statements = [t \in Threads |-> <<>>]
    /\ issued = [t \in Threads |-> <<>>]
    /\ observed = <<>>
    /\ returned = 0
    /\ given \in LevelInputs
    /\ result = [fn |-> "none"]

\* let levels = ULogLevel::all_levels()
call_all_levels ==
    /\ result' = [fn |-> "all_levels", value |-> all_levels]
    /\ UNCHANGED <<logging, given>>

\* levels[i] < levels[j], as test_level_order evaluates it
test_level_order ==
    /\ result' = [fn |-> "test_level_order",
                  value |-> ULogLevel_lt(all_levels[given.i], all_levels[given.j])]
    /\ UNCHANGED <<logging, given>>

\* x < y, x == y, x > y and x >= y
compare ==
    /\ result' = [fn |-> "compare",
                  lt |-> ULogLevel_lt(given.x, given.y),
                  eq |-> ULogLevel_eq(given.x, given.y),
                  gt |-> ULogLevel_gt(given.x, given.y),
                  ge |-> ULogLevel_ge(given.x, given.y),
                  cmp |-> ULogLevel_cmp(given.x, given.y)]
    /\ UNCHANGED <<logging, given>>

\* x < y, y < z and x < z
compare_chain ==
    /\ result' = [fn |-> "compare_chain",
                  xy |-> ULogLevel_lt(given.x, given.y),
                  yz |-> ULogLevel_lt(given.y, given.z),
                  xz |-> ULogLevel_lt(given.x, given.z)]
    /\ UNCHANGED <<logging, given>>

\* x.as_str() and y.as_str()
call_as_str ==
    /\ result' = [fn |-> "as_str", x |-> as_str(given.x), y |-> as_str(given.y)]
    /\ UNCHANGED <<logging, given>>

\* x.as_short_str() and y.as_short_str()
call_as_short_str ==
    /\ result' = [fn |-> "as_short_str",
                  x |-> as_short_str(given.x), y |-> as_short_str(given.y)]
    /\ UNCHANGED <<logging, given>>

\* <&'static str>::from(&x) and <&'static str>::from(x)
call_from ==
    /\ result' = [fn |-> "from",
                  ref |-> From_ref_ULogLevel(given.x),
                  value |-> From_ULogLevel(given.x)]
    /\ UNCHANGED <<logging, given>>

\* format!("{}", x)
call_fmt ==
    /\ result' = [fn |-> "fmt", x |-> Display_fmt(given.x)]
    /\ UNCHANGED <<logging, given>>

NextLevels ==
    \/ call_all_levels
    \/ test_level_order
    \/ compare
    \/ compare_chain
    \/ call_as_str
    \/ call_as_short_str
    \/ call_from
    \/ call_fmt

SpecLevels == InitLevels /\ [][NextLevels]_vars

\* ---------------------------------------------------------------- properties

\* The calls, without the history's annotations.
RECURSIVE CallsOf(_)
CallsOf(events) ==
    IF events = <<>> THEN <<>>
    ELSE <<Head(events).call>> \o CallsOf(Tail(events))

\* The leaf calls (leaf and call) of a history or of a pending sequence.
RECURSIVE LeafCallsOf(_)
LeafCallsOf(events) ==
    IF events = <<>> THEN <<>>
    ELSE LeafCall(Head(events).leaf, Head(events).call) \o LeafCallsOf(Tail(events))

IsTest(leaf, id) == leaf.kind = "Test" /\ leaf.id = id

\* What TestLogger id has been called with so far.
ObservedBy(id) == CallsOf(SelectSeq(observed, LAMBDA e : IsTest(e.leaf, id)))

AtOrAbove(events, min_level) ==
    SelectSeq(events, LAMBDA e : ~ULogLevel_lt(e.call.log_data.level, min_level))

Below(events, min_level) ==
    SelectSeq(events, LAMBDA e : ULogLevel_lt(e.call.log_data.level, min_level))

\* The leaf calls that calling logger with each of calls in turn makes.
RECURSIVE InvokeAll(_, _)
InvokeAll(logger, calls) ==
    IF calls = <<>> THEN <<>>
    ELSE Invoke(logger, Head(calls)) \o InvokeAll(logger, Tail(calls))

\* C1: whatever calls are made on MinLevelLogger::new(R, t), no call with a
\* severity strictly below t reaches R: none has been received by a leaf under
\* R, none is on its way to one, and no TestLogger holds an entry below t.
C1_NothingBelowThreshold ==
    root.kind = "MinLevel" =>
        LET t == MinLevelLogger_min_level(root)
        IN  /\ Below(observed, t) = <<>>
            /\ Below(pending[1], t) = <<>>
            /\ \A id \in LeafIds : \A i \in 1..Len(logs[id]) :
                   ~ULogLevel_lt(logs[id][i][1], t)

\* A filter at Warning was called at Debug and at Info, the calls have
\* returned, and the recorder behind it has observed nothing.
C1_Witness ==
    /\ root = MinLevelLogger_new(TestLogger("a"), "Warning")
    /\ Len(issued[1]) >= 2
    /\ returned = Len(issued[1])
    /\ \E i, j \in 1..Len(issued[1]) :
          /\ issued[1][i].call.log_data.level = "Debug"
          /\ issued[1][j].call.log_data.level = "Info"
    /\ observed = <<>>
    /\ logs["a"] = <<>>

\* C2: the calls made on MinLevelLogger::new(R, t) with a severity at or above
\* t (equal to t included) reach R unaltered: what the leaves under R have
\* received, followed by what is on its way to them, is exactly what calling R
\* itself with those calls, in the order they were made, delivers; for R a
\* TestLogger, R has received those calls themselves, arguments and all.
C2_ForwardedUnaltered ==
    root.kind = "MinLevel" =>
        LET t == MinLevelLogger_min_level(root)
            kept == CallsOf(AtOrAbove(issued[1], t))
        IN  /\ LeafCallsOf(observed) \o pending[1] = InvokeAll(root.logger, kept)
            /\ root.logger.kind = "Test" =>
                  ObservedBy(root.logger.id) \o CallsOf(pending[1]) = kept

\* A statement with a name => value pair whose severity equals the threshold
\* has completed, and the recorder has observed its four calls.
C2_Witness ==
    /\ root.kind = "MinLevel"
    /\ root.logger = TestLogger("a")
    /\ Len(statements[1]) = 1
    /\ statements[1][1].level = root.min_level
    /\ prog[1] = <<>> /\ pending[1] = <<>>
    /\ Len(ObservedBy("a")) = 4
    /\ ObservedBy("a")[3].op = "log_format"
    /\ ObservedBy("a")[4].op = "log_end"

\* C3: on ChainLogger::new(A, B), each call made reaches A and then B, with
\* the same arguments, before the next call reaches either: the k-th call made
\* is the (2k-1)-th leaf call, on A, and the 2k-th, on B.  So A and B observe
\* the same sequence, and A's call precedes B's for each call.
C3_ParentThenCurrent ==
    (root.kind = "Chain" /\ root.parent.kind \in {"Test", "Stub"}
        /\ root.current.kind \in {"Test", "Stub"}) =>
        /\ Len(observed) + Len(pending[1]) = 2 * Len(issued[1])
        /\ \A i \in 1..Len(observed) :
              /\ observed[i].call = issued[1][(i + 1) \div 2].call
              /\ observed[i].leaf = IF i % 2 = 1 THEN root.parent ELSE root.current
        /\ (pending[1] = <<>> /\ root.parent.kind = "Test" /\ root.current.kind = "Test")
              => ObservedBy(root.parent.id) = ObservedBy(root.current.id)

\* A statement has completed on a chain of two TestLoggers, and both hold it.
C3_Witness ==
    /\ root = ChainLogger_new(TestLogger("a"), TestLogger("b"))
    /\ Len(statements[1]) = 1
    /\ prog[1] = <<>> /\ pending[1] = <<>>
    /\ Len(observed) = 10
    /\ logs["a"] = logs["b"]
    /\ Len(logs["a"]) = 5

\* The block of one statement as C4 states it: log_begin, log_str with the
\* message, one log_format per pair in textual order, log_end, each with the
\* statement's severity and call site.
RECURSIVE BlockPairs(_, _, _)
BlockPairs(log_data, names, values) ==
    IF names = <<>> THEN <<>>
    ELSE <<Call_log_format(log_data, Head(names), Head(values))>>
         \o BlockPairs(log_data, Tail(names), Tail(values))

Block(st) ==
    LET log_data == [level |-> st.level, line |-> st.site.line, file |-> st.site.file]
    IN  <<Call_log_begin(log_data), Call_log_str(log_data, st.site.str)>>
        \o BlockPairs(log_data, st.site.names, st.values)
        \o <<Call_log_end(log_data)>>

\* The blocks of the statements from the n-th on, each call with its statement.
RECURSIVE BlocksFrom(_)
BlocksFrom(n) ==
    IF n > Len(statements[1]) THEN <<>>
    ELSE [i \in 1..Len(Block(statements[1][n])) |->
             [call |-> Block(statements[1][n])[i], stmt |-> n]]
         \o BlocksFrom(n + 1)

\* C4: statements issued one after another on a recorder reach it as the
\* concatenation, in issue order, of one block per statement: what the
\* recorder has received, then the call in progress, then the calls the
\* current statement has yet to make, is the sequence of the blocks, and each
\* call received belongs to the statement whose block it lies in.
C4_BlocksInOrder ==
    root = TestLogger("a") =>
        LET blocks == BlocksFrom(1)
        IN  /\ ObservedBy("a") \o CallsOf(pending[1]) \o prog[1] = CallsOf(blocks)
            /\ \A i \in 1..Len(observed) : observed[i].stmt = blocks[i].stmt
            /\ \A i \in 1..Len(observed) :
                  observed[i].call.log_data.level = statements[1][observed[i].stmt].level

\* The tests' scenario: Debug "Hello", then Error "world" with value => 32,
\* both completed, and the TestLogger holds the seven entries the test expects.
C4_Witness ==
    /\ root = TestLogger("a")
    /\ Len(statements[1]) = 2
    /\ prog[1] = <<>> /\ pending[1] = <<>>
    /\ logs["a"] = << <<"Debug", "__BEGIN__">>, <<"Debug", "Hello">>,
                      <<"Debug", "__END__">>, <<"Error", "__BEGIN__">>,
                      <<"Error", "world">>, <<"Error", "value => 32">>,
                      <<"Error", "__END__">> >>

\* C5: nothing in a leaf, a ChainLogger or a MinLevelLogger makes one thread
\* wait for another: whatever the other thread is in the middle of, a thread
\* can make the next leaf call of its call, the next call of its statement, or
\* (while statements remain to be issued) begin a statement.  So statements
\* are free to interleave; C5_Witness is a state where they have.
C5_NoMutualExclusion ==
    \A t \in Threads :
        /\ pending[t] # <<>> => ENABLED Deliver(t)
        /\ (pending[t] = <<>> /\ prog[t] # <<>>) => ENABLED ulog_call(t)
        /\ (pending[t] = <<>> /\ prog[t] = <<>> /\ StmtCount < MaxStmts)
              => ENABLED ulog_enter(t)

\* Under a decorator, leaf a has received a call of one statement between the
\* log_begin and the log_end of another.
C5_Witness ==
    /\ root.kind \in {"Chain", "MinLevel"}
    /\ \E i, j, k \in 1..Len(observed) :
          /\ i < j /\ j < k
          /\ IsTest(observed[i].leaf, "a")
          /\ IsTest(observed[j].leaf, "a")
          /\ IsTest(observed[k].leaf, "a")
          /\ observed[i].call.op = "log_begin"
          /\ observed[k].call.op = "log_end"
          /\ observed[i].by = observed[k].by
          /\ observed[i].stmt = observed[k].stmt
          /\ observed[j].by # observed[i].by

\* C6: all_levels() is [Debug, Info, Warning, Error, Critical]; for indices
\* i < j of it, levels[i] < levels[j]; of x < y, x == y and x > y exactly one
\* holds, x == y exactly when x and y are the same level, and x >= y (the
\* filter's comparison) exactly when not x < y; and x < y, y < z give x < z.
C6_LevelOrder ==
    /\ result.fn = "all_levels" =>
          result.value = <<"Debug", "Info", "Warning", "Error", "Critical">>
    /\ result.fn = "test_level_order" => result.value
    /\ result.fn = "compare" =>
          /\ Cardinality({r \in {"lt", "eq", "gt"} : result[r]}) = 1
          /\ result.eq <=> (given.x = given.y)
          /\ result.ge <=> ~result.lt
          /\ result.cmp = (IF result.lt THEN "Less"
                            ELSE IF result.eq THEN "Equal" ELSE "Greater")
    /\ result.fn = "compare_chain" =>
          ((result.xy /\ result.yz) => result.xz)

\* Info < Warning < Critical has been evaluated: both hold, and so does
\* Info < Critical.
C6_Witness ==
    /\ result.fn = "compare_chain"
    /\ given.x = "Info" /\ given.y = "Warning" /\ given.z = "Critical"
    /\ result.xy /\ result.yz /\ result.xz

\* The entries TestLogger accumulates from calls, in order.
RECURSIVE Replay(_, _)
Replay(self_logs, calls) ==
    IF calls = <<>> THEN self_logs
    ELSE Replay(TestLogger_log(self_logs, Head(calls)), Tail(calls))

\* C7: ChainLogger::new(a, b).into_inner() is (a, b), in that order, and
\* MinLevelLogger::new(r, t).into_inner() is r; the recorders come back with
\* the state the forwarded calls gave them (each TestLogger holds the entries
\* of the calls it received, no more, no fewer); and whatever calls have been
\* made, min_level() of MinLevelLogger::new(r, t) is t.
C7_RoundTrip ==
    /\ root.kind = "MinLevel" => MinLevelLogger_min_level(root) = args[2]
    /\ unwrapped # <<>> =>
          /\ root.kind = "Chain" => unwrapped[1] = <<args[1], args[2]>>
          /\ root.kind = "MinLevel" => unwrapped[1] = args[1]
          /\ \A id \in LeafIds : logs[id] = Replay(<<>>, ObservedBy(id))

\* A chain of two TestLoggers has been called twice and then unwrapped: the
\* two come back in order, each with its two entries.
C7_Witness ==
    /\ root.kind = "Chain"
    /\ args = <<TestLogger("a"), TestLogger("b")>>
    /\ unwrapped = << <<TestLogger("a"), TestLogger("b")>> >>
    /\ Len(logs["a"]) = 2
    /\ Len(logs["b"]) = 2

\* The recorder is L itself, &L or &&L, for L a TestLogger.
IsBorrowOfTest(logger) ==
    \/ logger.kind = "Test"
    \/ /\ logger.kind = "Ref"
       /\ \/ logger.referent.kind = "Test"
          \/ /\ logger.referent.kind = "Ref"
             /\ logger.referent.referent.kind = "Test"

\* C8: calls made through &L or &&L reach L as calls made on L itself do: L
\* receives each call made, once, in order, with its arguments (the call in
\* progress being the one about to reach it), and ends up with the same logs.
C8_ReferenceForwards ==
    IsBorrowOfTest(root) =>
        /\ Len(observed) + Len(pending[1]) = Len(issued[1])
        /\ ObservedBy("a") \o CallsOf(pending[1]) = CallsOf(issued[1])
        /\ \A i \in 1..Len(observed) : IsTest(observed[i].leaf, "a")
        /\ pending[1] = <<>> => logs["a"] = Replay(<<>>, CallsOf(issued[1]))

\* Two calls, one of them log_format, have been made through &&L and have
\* returned.
C8_Witness ==
    /\ root = Ref(Ref(TestLogger("a")))
    /\ Len(issued[1]) = 2
    /\ returned = 2
    /\ issued[1][2].call.op = "log_format"
    /\ Len(logs["a"]) = 2

\* C9: calls on StubLogger, in any order, change nothing and return: with
\* StubLogger as the recorder no TestLogger ever holds an entry, no call has
\* failed and every call made but the one in progress has returned; and a
\* StubLogger inside a chain adds nothing to the TestLogger beside it.
C9_StubNoEffect ==
    /\ root.kind = "Stub" =>
          /\ logs = [id \in LeafIds |-> <<>>]
          /\ status[1] = "ok"
          /\ returned + Len(pending[1]) = Len(issued[1])
    /\ \A id \in LeafIds : logs[id] = Replay(<<>>, ObservedBy(id))

\* StubLogger has been called with log_end and then log_begin, out of
\* protocol, and both calls have returned.
C9_Witness ==
    /\ root = StubLogger
    /\ Len(issued[1]) = 2
    /\ issued[1][1].call.op = "log_end"
    /\ issued[1][2].call.op = "log_begin"
    /\ Len(observed) = 2
    /\ returned = 2

\* Some leaf of the recorder panics.
RECURSIVE HasPanic(_)
HasPanic(logger) ==
    CASE logger.kind = "Chain" -> HasPanic(logger.parent) \/ HasPanic(logger.current)
      [] logger.kind = "MinLevel" -> HasPanic(logger.logger)
      [] logger.kind = "Ref" -> HasPanic(logger.referent)
      [] OTHER -> logger.kind = "Panic"

\* C10: a call on a ChainLogger or MinLevelLogger fails only where a call it
\* forwards fails: a caller has panicked only in a call to a panicking leaf,
\* the last call a leaf received; a MinLevelLogger called only below its
\* threshold has not failed and has called nothing, whatever it wraps; and a
\* recorder with no panicking leaf has not failed.
C10_NoOwnFailure ==
    /\ status[1] = "panicked" =>
          /\ observed # <<>>
          /\ observed[Len(observed)].leaf.kind = "Panic"
    /\ (root.kind = "MinLevel"
           /\ AtOrAbove(issued[1], MinLevelLogger_min_level(root)) = <<>>) =>
          /\ status[1] = "ok"
          /\ observed = <<>>
          /\ returned = Len(issued[1])
    /\ ~HasPanic(root) => status[1] = "ok"

\* A filter at Error over a leaf that panics on every call has been called
\* with log_begin and log_end at Warning, and both calls have returned.
C10_Witness ==
    /\ root = MinLevelLogger_new(PanicLogger, "Error")
    /\ Len(issued[1]) = 2
    /\ issued[1][1].call.op = "log_begin"
    /\ issued[1][1].call.log_data.level = "Warning"
    /\ issued[1][2].call.op = "log_end"
    /\ returned = 2
    /\ status[1] = "ok"

\* The severity C11 gives for each level macro.
SeverityOfMacro(name) ==
    CASE name = "debug" -> "Debug"
      [] name = "info" -> "Info"
      [] name = "warn" -> "Warning"
      [] name = "error" -> "Error"
      [] name = "critical" -> "Critical"

\* The blocks of the level-macro statements from the n-th on, each the block
\* of the ulog! statement with the macro's severity.
RECURSIVE MacroBlocksFrom(_)
MacroBlocksFrom(n) ==
    IF n > Len(statements[1]) THEN <<>>
    ELSE Block([level |-> SeverityOfMacro(statements[1][n].macro),
                site |-> statements[1][n].site,
                values |-> statements[1][n].values])
         \o MacroBlocksFrom(n + 1)

\* C11: debug!, info!, warn!, error! and critical!, with or without pairs,
\* issue the statement ulog! issues with Debug, Info, Warning, Error and
\* Critical: the recorder receives log_begin, the text, the pairs in order and
\* log_end, every call with the macro's severity.
C11_LevelMacros ==
    IsBorrowOfTest(root) =>
        /\ ObservedBy("a") \o CallsOf(pending[1]) \o prog[1] = MacroBlocksFrom(1)
        /\ \A i \in 1..Len(observed) :
              observed[i].call.log_data.level
                  = SeverityOfMacro(statements[1][observed[i].stmt].macro)

\* test_info_macro: info! "Hello", then info! "world" with value => 32, both
\* completed, and the TestLogger holds the seven entries the test expects.
C11_Witness ==
    /\ root = TestLogger("a")
    /\ Len(statements[1]) = 2
    /\ prog[1] = <<>> /\ pending[1] = <<>>
    /\ logs["a"] = << <<"Info", "__BEGIN__">>, <<"Info", "Hello">>,
                      <<"Info", "__END__">>, <<"Info", "__BEGIN__">>,
                      <<"Info", "world">>, <<"Info", "value => 32">>,
                      <<"Info", "__END__">> >>

\* C12: the recorder built by min_level(R, min_level) passes on to R only the
\* statements with a level strictly above min_level: no call of a statement
\* whose level equals min_level, or is below it, reaches a leaf under R.
C12_OnlyAbove ==
    root.kind = "MinLevel" =>
        /\ \A i \in 1..Len(observed) :
              ULogLevel_gt(observed[i].call.log_data.level,
                           MinLevelLogger_min_level(root))
        /\ \A id \in LeafIds : \A i \in 1..Len(logs[id]) :
              ULogLevel_gt(logs[id][i][1], MinLevelLogger_min_level(root))

\* The long names and the short codes C13 lists.
LongName ==
    [Debug |-> "DEBUG", Info |-> "INFO", Warning |-> "WARN", Error |-> "ERROR",
     Critical |-> "CRITICAL"]

ShortCode ==
    [Debug |-> "DBG", Info |-> "INF", Warning |-> "WRN", Error |-> "ERR",
     Critical |-> "CRT"]

\* C13: as_str, From<&ULogLevel>, From<ULogLevel> and Display give a level the
\* long name of the table DEBUG, INFO, WARN, ERROR, CRITICAL; as_short_str
\* gives it the short code DBG, INF, WRN, ERR, CRT, of exactly 3 characters;
\* and two different levels never share a long name or a short code.
C13_Rendering ==
    /\ result.fn = "as_str" =>
          /\ result.x = LongName[given.x]
          /\ (given.x # given.y => result.x # result.y)
    /\ result.fn = "from" =>
          /\ result.ref = LongName[given.x]
          /\ result.value = LongName[given.x]
    /\ result.fn = "fmt" => result.x = LongName[given.x]
    /\ result.fn = "as_short_str" =>
          /\ result.x = ShortCode[given.x]
          /\ Len(result.x) = 3
          /\ (given.x # given.y => result.x # result.y)

\* Warning and Error have been rendered: WRN and ERR, two different codes of
\* three characters.
C13_Witness ==
    /\ result.fn = "as_short_str"
    /\ given.x = "Warning" /\ given.y = "Error"
    /\ result.x = "WRN" /\ result.y = "ERR"

\* How many of the first k calls made carry a severity at or above min_level.
PassedUpTo(k, min_level) ==
    Cardinality({j \in 1..k :
        ~ULogLevel_lt(issued[1][j].call.log_data.level, min_level)})

\* C14: MinLevelLogger decides on each call by that call's own severity and
\* the threshold alone.  Whatever severities the calls of one sequence carry,
\* the inner recorder is called once for each call at or above the threshold
\* and for no other, in the order made, whatever came before it (a log_end
\* without its log_begin included); and when all the calls made carry one
\* severity, the inner recorder is called with all of them or with none.
C14_DecidedPerCall ==
    (root.kind = "MinLevel" /\ root.logger.kind = "Test") =>
        LET t == MinLevelLogger_min_level(root)
            seen == ObservedBy(root.logger.id) \o CallsOf(pending[1])
            n == Len(issued[1])
        IN  /\ Len(seen) = PassedUpTo(n, t)
            /\ \A k \in 1..n :
                  IF ULogLevel_lt(issued[1][k].call.log_data.level, t)
                  THEN PassedUpTo(k, t) = PassedUpTo(k - 1, t)
                  ELSE seen[PassedUpTo(k, t)] = issued[1][k].call
            /\ (\A j, k \in 1..n : issued[1][j].call.log_data.level
                                      = issued[1][k].call.log_data.level)
                  => (seen = <<>> \/ seen = CallsOf(issued[1]))

\* log_begin was called at Debug and log_end at Error on a filter at Warning:
\* the recorder behind it has observed the log_end alone.
C14_Witness ==
    /\ root = MinLevelLogger_new(TestLogger("a"), "Warning")
    /\ Len(issued[1]) = 2
    /\ returned = 2
    /\ issued[1][1].call = Call_log_begin(ULogData_new("Debug", 255, "src/lib.rs"))
    /\ issued[1][2].call = Call_log_end(ULogData_new("Error", 255, "src/lib.rs"))
    /\ ObservedBy("a") = <<Call_log_end(ULogData_new("Error", 255, "src/lib.rs"))>>
    /\ logs["a"] = << <<"Error", "__END__">> >>

\* s is an initial part of q.
IsPrefix(s, q) == Len(s) <= Len(q) /\ SubSeq(q, 1, Len(s)) = s

\* The leaf calls TestLogger id has received from statement n of thread t.
FromStatement(id, t, n) ==
    SelectSeq(observed, LAMBDA ev : IsTest(ev.leaf, id) /\ ev.by = t /\ ev.stmt = n)

\* The threads whose calls TestLogger id received, in the order received.
RECURSIVE CallersOf(_)
CallersOf(events) ==
    IF events = <<>> THEN <<>>
    ELSE <<Head(events).by>> \o CallersOf(Tail(events))

\* C15: two threads each issue statements on a shared ChainLogger::new(A, B).
\* For each statement, what A has received of it and what B has received of it
\* are the calls of that statement in order (log_begin, the text, log_end), B
\* being at most one call behind A and, at every moment, never ahead: each call
\* reaches A before it reaches B.  Once the statement is complete, both have
\* received all of it.
C15_PerStatementOrder ==
    root = ChainLogger_new(TestLogger("a"), TestLogger("b")) =>
        \A t \in Threads : \A n \in 1..Len(statements[t]) :
            LET atA == CallsOf(FromStatement("a", t, n))
                atB == CallsOf(FromStatement("b", t, n))
            IN  /\ IsPrefix(atA, Block(statements[t][n]))
                /\ IsPrefix(atB, atA)
                /\ Len(atA) <= Len(atB) + 1
                /\ (n < cur[t] \/ (prog[t] = <<>> /\ pending[t] = <<>>))
                      => (atA = Block(statements[t][n]) /\ atB = atA)

\* Both threads have completed a statement on the chain, and A received their
\* calls in one order of threads, B in another.
C15_Witness ==
    /\ root = ChainLogger_new(TestLogger("a"), TestLogger("b"))
    /\ \A t \in Threads :
          Len(statements[t]) = 1 /\ prog[t] = <<>> /\ pending[t] = <<>>
    /\ CallersOf(SelectSeq(observed, LAMBDA ev : IsTest(ev.leaf, "a")))
          # CallersOf(SelectSeq(observed, LAMBDA ev : IsTest(ev.leaf, "b")))

\* Statement n of the caller is complete: all its calls have returned.
Completed(n) == n < cur[1] \/ (prog[1] = <<>> /\ pending[1] = <<>>)

\* What TestLogger id has received of the statements from the n-th on, taken
\* statement by statement.
RECURSIVE ByStatementFrom(_, _)
ByStatementFrom(id, n) ==
    IF n > Len(statements[1]) THEN <<>>
    ELSE CallsOf(FromStatement(id, 1, n)) \o ByStatementFrom(id, n + 1)

\* C16: statements issued one after another on a tree of ChainLogger and
\* MinLevelLogger reach every leaf all-or-nothing: of a completed statement a
\* leaf has received nothing or the whole block log_begin, text, pairs,
\* log_end in order; of the statement in progress it has received an initial
\* part of the block; and it received the statements in the order issued, so
\* its trace is an initial part of a concatenation of whole blocks.
C16_AllOrNothing ==
    \A id \in LeafIds :
        /\ ObservedBy(id) = ByStatementFrom(id, 1)
        /\ \A n \in 1..Len(statements[1]) :
              LET part == CallsOf(FromStatement(id, 1, n))
              IN  /\ IsPrefix(part, Block(statements[1][n]))
                  /\ Completed(n) => part \in {<<>>, Block(statements[1][n])}

\* Under chain(min_level(chain(a, b), Warning), min_level(c, Info)) an Info
\* statement and then an Error statement have completed: a holds the Error
\* block alone, c both blocks.
C16_Witness ==
    /\ root = ChainLogger_new(
                  MinLevelLogger_new(ChainLogger_new(TestLogger("a"), TestLogger("b")),
                                     "Warning"),
                  MinLevelLogger_new(TestLogger("c"), "Info"))
    /\ Len(statements[1]) = 2 /\ Completed(2)
    /\ statements[1][1].level = "Info" /\ statements[1][2].level = "Error"
    /\ ObservedBy("a") = Block(statements[1][2])
    /\ ObservedBy("b") = Block(statements[1][2])
    /\ ObservedBy("c") = Block(statements[1][1]) \o Block(statements[1][2])

\* The leaves of a tree from left to right (parent before current), each with
\* the thresholds of the filters on the way from the root to it.
RECURSIVE PathsOf(_, _)
PathsOf(tree, thresholds) ==
    CASE tree.kind = "Chain" ->
             PathsOf(tree.parent, thresholds) \o PathsOf(tree.current, thresholds)
      [] tree.kind = "MinLevel" ->
             PathsOf(tree.logger, thresholds \cup {tree.min_level})
      [] OTHER -> <<[leaf |-> tree, thresholds |-> thresholds]>>

\* The greatest of a non-empty set of levels.
MaxLevel(levels) == CHOOSE m \in levels : \A l \in levels : ~ULogLevel_lt(m, l)

\* The severity is at or above every threshold on the path.
Clears(level, thresholds) == \A th \in thresholds : ~ULogLevel_lt(level, th)

\* The leaf calls C17 expects of the calls from the k-th on: for each call in
\* turn, the leaves whose path it clears, from left to right.
RECURSIVE ExpectedFrom(_)
ExpectedFrom(k) ==
    IF k > Len(issued[1]) THEN <<>>
    ELSE LET call == issued[1][k].call
             reached == SelectSeq(PathsOf(root, {}),
                            LAMBDA p : Clears(call.log_data.level, p.thresholds))
         IN  [i \in 1..Len(reached) |-> [leaf |-> reached[i].leaf, call |-> call]]
             \o ExpectedFrom(k + 1)

\* C17: in a tree of ChainLogger and MinLevelLogger a leaf receives a call
\* exactly when the call's severity is at or above every threshold between the
\* root and the leaf, which is to say at or above the greatest of them (a leaf
\* under no filter receives every call), and the leaves that receive a call
\* receive it from left to right, parent before current.  So
\* MinLevelLogger(MinLevelLogger(R, t1), t2) delivers to R what
\* MinLevelLogger(R, max(t1, t2)) delivers, and what the filters nested the
\* other way round deliver.
C17_PathThresholds ==
    /\ LeafCallsOf(observed) \o pending[1] = ExpectedFrom(1)
    /\ \A k \in 1..Len(issued[1]) : \A i \in 1..Len(PathsOf(root, {})) :
          LET level == issued[1][k].call.log_data.level
              thresholds == PathsOf(root, {})[i].thresholds
          IN  Clears(level, thresholds)
                  <=> (thresholds = {} \/ ~ULogLevel_lt(level, MaxLevel(thresholds)))
    /\ (root.kind = "MinLevel" /\ root.logger.kind = "MinLevel") =>
          LET R == root.logger.logger
              t1 == root.logger.min_level
              t2 == root.min_level
              calls == CallsOf(issued[1])
          IN  /\ LeafCallsOf(observed) \o pending[1]
                    = InvokeAll(MinLevelLogger_new(R, MaxLevel({t1, t2})), calls)
              /\ LeafCallsOf(observed) \o pending[1]
                    = InvokeAll(MinLevelLogger_new(MinLevelLogger_new(R, t2), t1), calls)

\* a.chain(b).chain(c) has been called with a statement with a pair: each of
\* its four calls reached a, then b, then c.
C17_Witness ==
    /\ root = ChainLogger_new(ChainLogger_new(TestLogger("a"), TestLogger("b")),
                              TestLogger("c"))
    /\ Len(statements[1]) = 1 /\ prog[1] = <<>> /\ pending[1] = <<>>
    /\ Len(issued[1]) = 4
    /\ Len(observed) = 12
    /\ \A k \in 1..4 :
          /\ observed[3 * k - 2] = [leaf |-> TestLogger("a"), call |-> issued[1][k].call,
                                    by |-> 1, stmt |-> 1]
          /\ observed[3 * k - 1].leaf = TestLogger("b")
          /\ observed[3 * k].leaf = TestLogger("c")

====
